---- MODULE Spec2Model ----
(***************************************************************************)
(* create-rmv-project: bin/cli.js.                                         *)
(*                                                                         *)
(* The tool is one async function, setupProject, that runs a fixed list of *)
(* file-system, git and npm operations.  The model follows one process     *)
(* through that function statement by statement; every awaited operation   *)
(* may succeed or throw.  The target directory persists between runs, so   *)
(* a later invocation with the same name sees what the earlier one left.   *)
(***************************************************************************)
EXTENDS Integers, Sequences, FiniteSets, TLC

(* ---------------------------- bounds ----------------------------------- *)

\* number of invocations of the tool with the same name and working directory
MaxRuns == 2
\* number of segments the generated tailwind.config.js is assembled from
MaxSegs == 3
\* length, in tokens, of the texts the patch is applied to in SpecPatch
MaxTextLen == 6
\* number of times SpecPatch applies the patch to one text
MaxApply == 2

(* --------------------- configuration text ------------------------------ *)

\* The configuration text is a sequence of tokens.  "ws" is a non-empty run
\* of white space, "x" any other text, "php"/"js"/"txt" the three glob
\* string literals and "typo" the require('@tailwindcss/typography') call.
ContentReplacement ==
    << "content:", "ws", "[", "ws", "php", ",", "ws", "js", ",", "ws",
       "txt", "ws", "]" >>

PluginsReplacement ==
    << "plugins:", "ws", "[", "ws", "typo", ",", "ws", "]" >>

\* \s* : the first position at or after i that holds no white space
RECURSIVE SkipWs(_, _)
SkipWs(text, i) ==
    IF i <= Len(text) /\ text[i] = "ws" THEN SkipWs(text, i + 1) ELSE i

\* MatchEnd with the pattern cut short to /key\s*\[/: any array matches,
\* empty or not
MatchEndOpenBracket(text, i, key) ==
    IF text[i] # key THEN 0
    ELSE LET j == SkipWs(text, i + 1) IN
         IF j > Len(text) \/ text[j] # "[" THEN 0 ELSE j

\* /key\s*\[\s*\]/ anchored at position i: the position of the closing
\* bracket when the pattern matches there, 0 when it does not
MatchEnd(text, i, key) ==
    IF text[i] # key THEN 0
    ELSE LET j == SkipWs(text, i + 1) IN
         IF j > Len(text) \/ text[j] # "[" THEN 0
         ELSE LET k == SkipWs(text, j + 1) IN
              IF k > Len(text) \/ text[k] # "]" THEN 0 ELSE k

\* String.prototype.replace with a /g pattern: every match, left to right,
\* non-overlapping, is replaced; the rest of the text is copied
RECURSIVE ReplaceAll(_, _, _, _)
ReplaceAll(text, i, key, repl) ==
    IF i > Len(text) THEN << >>
    ELSE LET e == MatchEnd(text, i, key) IN
         IF e = 0 THEN << text[i] >> \o ReplaceAll(text, i + 1, key, repl)
         ELSE repl \o ReplaceAll(text, e + 1, key, repl)

\* PatchText without the second replacement
PatchTextContentOnly(text) ==
    ReplaceAll(text, 1, "content:", ContentReplacement)

\* the two replacements of the "Update tailwind.config.js" block
PatchText(text) ==
    ReplaceAll(ReplaceAll(text, 1, "content:", ContentReplacement),
               1, "plugins:", PluginsReplacement)

\* number of occurrences of token tok in text
Count(text, tok) == Cardinality({ i \in 1..Len(text) : text[i] = tok })

(* ----------------------- file-system values ---------------------------- *)

\* a function with no entries (a JSON object without keys)
NoEntries == [k \in {} |-> "none"]

NoManifest == [present |-> FALSE, top |-> NoEntries, scripts |-> NoEntries]

NoConfig == [present |-> FALSE, text |-> << >>]

NoGit == [present |-> FALSE, commits |-> {}, branch |-> "none"]

\* the target directory does not exist
NoDir ==
    [exists |-> FALSE, git |-> NoGit, manifest |-> NoManifest,
     cfg |-> NoConfig, css |-> FALSE, js |-> FALSE, modules |-> FALSE,
     built |-> FALSE, staged |-> FALSE]

\* package.json as the cloned template may carry it: none at all, or one
\* with fields and scripts of its own
TemplateManifests ==
    { NoManifest,
      [present |-> TRUE, top |-> ("name" :> "tpl"), scripts |-> NoEntries],
      [present |-> TRUE, top |-> ("name" :> "tpl" @@ "custom" :> "tpl"),
       scripts |-> ("test" :> "tpl")],
      [present |-> TRUE, top |-> ("name" :> "tpl"),
       scripts |-> ("build" :> "tpl" @@ "test" :> "tpl")] }

\* the object literal written when the template has no package.json
NewManifest ==
    [present |-> TRUE,
     top |-> ("name" :> "cli" @@ "version" :> "1.0.0" @@ "private" :> "true"),
     scripts |-> NoEntries]

BuildCmd == "tailwind --minify"
WatchCmd == "tailwind --watch"

\* WithScripts without the spread of the scripts already there
WithScriptsOnly(m) ==
    [m EXCEPT !.scripts = ("build" :> BuildCmd @@ "watch" :> WatchCmd)]

\* packageJson.scripts = { ...packageJson.scripts, build: ..., watch: ... }
WithScripts(m) ==
    [m EXCEPT !.scripts =
        [k \in DOMAIN m.scripts \cup {"build", "watch"} |->
            IF k = "build" THEN BuildCmd
            ELSE IF k = "watch" THEN WatchCmd
            ELSE m.scripts[k]]]

\* npm install --save-dev records the packages in the manifest
WithDevDependencies(m) ==
    [m EXCEPT !.top =
        [k \in DOMAIN m.top \cup {"devDependencies"} |->
            IF k = "devDependencies" THEN "npm" ELSE m.top[k]]]

\* pieces a generated tailwind.config.js is assembled from
Segments ==
    { << "content:", "[", "]" >>,
      << "content:", "ws", "[", "ws", "]" >>,
      << "plugins:", "[", "]" >>,
      << "plugins:", "ws", "[", "]" >>,
      << "content:", "[", "php", "]" >>,
      << "x" >> }

RECURSIVE TextsOf(_)
TextsOf(n) ==
    IF n = 0 THEN { << >> }
    ELSE TextsOf(n - 1) \cup
         { t \o s : t \in TextsOf(n - 1), s \in Segments }

\* what `npx @tailwindcss/cli init` may leave behind: no file, or a file
GeneratedConfigs ==
    { NoConfig } \cup { [present |-> TRUE, text |-> t] : t \in TextsOf(MaxSegs) }

(* ----------------------------- state ----------------------------------- *)

VARIABLES
    pc,             \* the statement of setupProject the process is at
    dir,            \* the target directory projectDir and what it holds
    cwd,            \* process.cwd(): "orig" or "project"
    exitCode,       \* the exit code, meaningful once pc = "exited"
    executed,       \* the setup steps this run has attempted, in order
    failedAt,       \* the first step of this run that threw, or "none"
    cleanupFailed,  \* fs.remove(projectDir) in the catch block threw
    run,            \* number of the current invocation
    priorOk         \* an earlier invocation ended with full success

vars == << pc, dir, cwd, exitCode, executed, failedAt, cleanupFailed, run,
           priorOk >>

\* the awaited statements that lie inside the try block
TrySteps ==
    { "install", "twinit", "css", "patch", "scripts", "mainjs", "build",
      "add", "commit", "branch" }

\* OnThrow with the try block opened before the clone
OnThrowAlwaysCaught(s) == "catch"

\* a throw inside the try block is caught; one before it rejects the
\* promise setupProject() returned
OnThrow(s) == IF s \in TrySteps THEN "catch" ELSE "rejected"

Init ==
    /\ pc = "clone"
    /\ dir = NoDir
    /\ cwd = "orig"
    /\ exitCode = 0
    /\ executed = << >>
    /\ failedAt = "none"
    /\ cleanupFailed = FALSE
    /\ run = 1
    /\ priorOk = FALSE

\* step s is attempted
Attempt(s) == pc = s /\ executed' = Append(executed, s)

\* the step completed and control reaches statement next
Done(next) == pc' = next /\ UNCHANGED failedAt

\* Throw with the failed step tried again
ThrowRetries(s) == failedAt' = s /\ pc' = pc /\ UNCHANGED dir

\* step s threw; the file system is as it was
Throw(s) == failedAt' = s /\ pc' = OnThrow(s) /\ UNCHANGED dir

Bookkeeping == UNCHANGED << exitCode, cleanupFailed, run, priorOk >>

(* --------------------- setupProject, before the try -------------------- *)

\* simpleGit().clone(url, projectDir): git refuses a target that exists and
\* is not empty, and leaves nothing behind when it fails
Clone ==
    /\ Attempt("clone")
    /\ \E ok \in BOOLEAN, m \in TemplateManifests :
          IF ok /\ ~dir.exists
          THEN /\ dir' = [NoDir EXCEPT
                             !.exists = TRUE,
                             !.git = [present |-> TRUE,
                                      commits |-> {"template"},
                                      branch |-> "template"],
                             !.manifest = m]
               /\ Done("rmgit")
          ELSE Throw("clone")
    /\ UNCHANGED cwd
    /\ Bookkeeping

\* RemoveGit that leaves the cloned .git in place
RemoveGitKeepsHistory ==
    /\ Attempt("rmgit")
    /\ \E ok \in BOOLEAN :
          IF ok
          THEN dir' = dir /\ Done("init")
          ELSE Throw("rmgit")
    /\ UNCHANGED cwd
    /\ Bookkeeping

\* fs.remove(path.join(projectDir, '.git'))
RemoveGit ==
    /\ Attempt("rmgit")
    /\ \E ok \in BOOLEAN :
          IF ok
          THEN dir' = [dir EXCEPT !.git = NoGit] /\ Done("init")
          ELSE Throw("rmgit")
    /\ UNCHANGED cwd
    /\ Bookkeeping

\* simpleGit(projectDir).init(): a new empty repository, or a
\* re-initialisation that keeps the history of a repository already there
GitInit ==
    /\ Attempt("init")
    /\ \E ok \in BOOLEAN :
          IF ok
          THEN /\ dir' = [dir EXCEPT
                             !.git = IF dir.git.present THEN dir.git
                                     ELSE [present |-> TRUE, commits |-> {},
                                           branch |-> "default"]]
               /\ Done("manifest")
          ELSE Throw("init")
    /\ UNCHANGED cwd
    /\ Bookkeeping

\* if (!await fs.pathExists(packageJsonPath)) await fs.writeJson(...)
EnsureManifest ==
    /\ Attempt("manifest")
    /\ \E ok \in BOOLEAN :
          IF ok
          THEN /\ dir' = [dir EXCEPT
                             !.manifest = IF dir.manifest.present
                                          THEN dir.manifest ELSE NewManifest]
               /\ Done("chdir")
          ELSE Throw("manifest")
    /\ UNCHANGED cwd
    /\ Bookkeeping

\* const originalCwd = process.cwd(); process.chdir(projectDir)
Chdir ==
    /\ Attempt("chdir")
    /\ \E ok \in BOOLEAN :
          IF ok
          THEN cwd' = "project" /\ Done("install") /\ UNCHANGED dir
          ELSE Throw("chdir") /\ UNCHANGED cwd
    /\ Bookkeeping

(* ------------------------ the try block -------------------------------- *)

\* await npmInstall([...], true)
NpmInstall ==
    /\ Attempt("install")
    /\ \E ok \in BOOLEAN :
          IF ok
          THEN /\ dir' = [dir EXCEPT
                             !.modules = TRUE,
                             !.manifest = WithDevDependencies(dir.manifest)]
               /\ Done("twinit")
          ELSE Throw("install")
    /\ UNCHANGED cwd
    /\ Bookkeeping

\* await runNpx('@tailwindcss/cli', ['init']): the external tool decides
\* whether a tailwind.config.js appears and what it says
TailwindInit ==
    /\ Attempt("twinit")
    /\ \E ok \in BOOLEAN, c \in GeneratedConfigs :
          IF ok
          THEN dir' = [dir EXCEPT !.cfg = c] /\ Done("css")
          ELSE Throw("twinit")
    /\ UNCHANGED cwd
    /\ Bookkeeping

\* fs.ensureDir(cssDirPath); fs.writeFile(inputCssPath, ...)
WriteCss ==
    /\ Attempt("css")
    /\ \E ok \in BOOLEAN :
          IF ok
          THEN dir' = [dir EXCEPT !.css = TRUE] /\ Done("patch")
          ELSE Throw("css")
    /\ UNCHANGED cwd
    /\ Bookkeeping

\* the "Update tailwind.config.js" block: read, replace twice, write back;
\* without a file only a warning is logged
PatchConfig ==
    /\ Attempt("patch")
    /\ \E ok \in BOOLEAN :
          IF ok
          THEN /\ dir' = [dir EXCEPT
                             !.cfg = IF dir.cfg.present
                                     THEN [present |-> TRUE,
                                           text |-> PatchText(dir.cfg.text)]
                                     ELSE dir.cfg]
               /\ Done("scripts")
          ELSE Throw("patch")
    /\ UNCHANGED cwd
    /\ Bookkeeping

\* readJson, set packageJson.scripts, writeJson
UpdateScripts ==
    /\ Attempt("scripts")
    /\ \E ok \in BOOLEAN :
          IF ok /\ dir.manifest.present
          THEN /\ dir' = [dir EXCEPT !.manifest = WithScripts(dir.manifest)]
               /\ Done("mainjs")
          ELSE Throw("scripts")
    /\ UNCHANGED cwd
    /\ Bookkeeping

\* WriteMainJs that goes on to the commit, the build left out
WriteMainJsSkipsBuild ==
    /\ Attempt("mainjs")
    /\ \E ok \in BOOLEAN :
          IF ok
          THEN dir' = [dir EXCEPT !.js = TRUE] /\ Done("add")
          ELSE Throw("mainjs")
    /\ UNCHANGED cwd
    /\ Bookkeeping

\* fs.ensureDir(jsDirPath); fs.writeFile(mainJsPath, ...)
WriteMainJs ==
    /\ Attempt("mainjs")
    /\ \E ok \in BOOLEAN :
          IF ok
          THEN dir' = [dir EXCEPT !.js = TRUE] /\ Done("build")
          ELSE Throw("mainjs")
    /\ UNCHANGED cwd
    /\ Bookkeeping

\* await runNpx('npm', ['run', 'build'])
Build ==
    /\ Attempt("build")
    /\ \E ok \in BOOLEAN :
          IF ok
          THEN dir' = [dir EXCEPT !.built = TRUE] /\ Done("add")
          ELSE Throw("build")
    /\ UNCHANGED cwd
    /\ Bookkeeping

\* await git.add('.')
GitAdd ==
    /\ Attempt("add")
    /\ \E ok \in BOOLEAN :
          IF ok /\ dir.git.present
          THEN dir' = [dir EXCEPT !.staged = TRUE] /\ Done("commit")
          ELSE Throw("add")
    /\ UNCHANGED cwd
    /\ Bookkeeping

\* await git.commit('Initial setup ...')
GitCommit ==
    /\ Attempt("commit")
    /\ \E ok \in BOOLEAN :
          IF ok /\ dir.staged
          THEN /\ dir' = [dir EXCEPT
                             !.staged = FALSE,
                             !.git.commits = dir.git.commits \cup {"initial"}]
               /\ Done("branch")
          ELSE Throw("commit")
    /\ UNCHANGED cwd
    /\ Bookkeeping

\* await git.branch(['-M', 'main']); the success banner follows
GitBranch ==
    /\ Attempt("branch")
    /\ \E ok \in BOOLEAN :
          IF ok
          THEN dir' = [dir EXCEPT !.git.branch = "main"] /\ Done("finally")
          ELSE Throw("branch")
    /\ UNCHANGED cwd
    /\ Bookkeeping

(* ------------------- catch, finally, process end ----------------------- *)

\* Catch that ends with process.exit(0)
CatchExitZero ==
    /\ pc = "catch"
    /\ cwd' = "orig"
    /\ \E ok \in BOOLEAN :
          IF ok
          THEN /\ dir' = NoDir
               /\ exitCode' = 0
               /\ pc' = "exited"
               /\ UNCHANGED cleanupFailed
          ELSE /\ cleanupFailed' = TRUE
               /\ pc' = "finally"
               /\ UNCHANGED << dir, exitCode >>
    /\ UNCHANGED << executed, failedAt, run, priorOk >>

\* Catch without the process.chdir(originalCwd) before the removal
CatchNoChdir ==
    /\ pc = "catch"
    /\ \E ok \in BOOLEAN :
          IF ok
          THEN /\ dir' = NoDir
               /\ exitCode' = 1
               /\ pc' = "exited"
               /\ UNCHANGED cleanupFailed
          ELSE /\ cleanupFailed' = TRUE
               /\ pc' = "finally"
               /\ UNCHANGED << dir, exitCode >>
    /\ UNCHANGED << cwd, executed, failedAt, run, priorOk >>

\* catch (error): log, process.chdir(originalCwd), fs.remove(projectDir),
\* process.exit(1).  process.exit ends the process at once, so the finally
\* block runs only when fs.remove threw
Catch ==
    /\ pc = "catch"
    /\ cwd' = "orig"
    /\ \E ok \in BOOLEAN :
          IF ok
          THEN /\ dir' = NoDir
               /\ exitCode' = 1
               /\ pc' = "exited"
               /\ UNCHANGED cleanupFailed
          ELSE /\ cleanupFailed' = TRUE
               /\ pc' = "finally"
               /\ UNCHANGED << dir, exitCode >>
    /\ UNCHANGED << executed, failedAt, run, priorOk >>

\* finally: if (process.cwd() !== originalCwd) process.chdir(originalCwd);
\* then the async function resolves, or rejects with the pending error
Finally ==
    /\ pc = "finally"
    /\ cwd' = "orig"
    /\ pc' = IF failedAt = "none" THEN "resolved" ELSE "rejected"
    /\ UNCHANGED << dir, exitCode, executed, failedAt, cleanupFailed, run,
                    priorOk >>

\* setupProject() is called without a rejection handler: the runtime
\* reports the unhandled rejection and ends the process with code 1 (the
\* default of Node.js since version 15)
UnhandledRejection ==
    /\ pc = "rejected"
    /\ exitCode' = 1
    /\ pc' = "exited"
    /\ UNCHANGED << dir, cwd, executed, failedAt, cleanupFailed, run,
                    priorOk >>

\* the promise resolved and nothing is left to run: exit code 0
ExitOk ==
    /\ pc = "resolved"
    /\ exitCode' = 0
    /\ pc' = "exited"
    /\ UNCHANGED << dir, cwd, executed, failedAt, cleanupFailed, run,
                    priorOk >>

\* the tool is invoked again with the same name from the same directory
Invoke ==
    /\ pc = "exited"
    /\ run < MaxRuns
    /\ run' = run + 1
    /\ priorOk' = (priorOk \/ exitCode = 0)
    /\ pc' = "clone"
    /\ cwd' = "orig"
    /\ exitCode' = 0
    /\ executed' = << >>
    /\ failedAt' = "none"
    /\ cleanupFailed' = FALSE
    /\ UNCHANGED dir

Next ==
    \/ Clone
    \/ RemoveGit
    \/ GitInit
    \/ EnsureManifest
    \/ Chdir
    \/ NpmInstall
    \/ TailwindInit
    \/ WriteCss
    \/ PatchConfig
    \/ UpdateScripts
    \/ WriteMainJs
    \/ Build
    \/ GitAdd
    \/ GitCommit
    \/ GitBranch
    \/ Catch
    \/ Finally
    \/ UnhandledRejection
    \/ ExitOk
    \/ Invoke

Spec == Init /\ [][Next]_vars

TypeOK ==
    /\ pc \in { "clone", "rmgit", "init", "manifest", "chdir", "install",
                "twinit", "css", "patch", "scripts", "mainjs", "build",
                "add", "commit", "branch", "catch", "finally", "rejected",
                "resolved", "exited" }
    /\ cwd \in { "orig", "project" }
    /\ exitCode \in { 0, 1 }
    /\ run \in 1..MaxRuns

(* ------------- the patch applied repeatedly to one text ---------------- *)

Tokens == { "content:", "plugins:", "[", "]", "ws", "x" }

AllTexts(n) == UNION { [1..k -> Tokens] : k \in 0..n }

\* a project directory whose tailwind.config.js holds an arbitrary text
InitPatch ==
    /\ pc = "patch"
    /\ \E t \in AllTexts(MaxTextLen) :
          dir = [NoDir EXCEPT !.exists = TRUE,
                              !.cfg = [present |-> TRUE, text |-> t]]
    /\ cwd = "project"
    /\ exitCode = 0
    /\ executed = << >>
    /\ failedAt = "none"
    /\ cleanupFailed = FALSE
    /\ run = 1
    /\ priorOk = FALSE

\* read the file, replace twice, write it back
Repatch ==
    /\ pc = "patch"
    /\ Len(executed) < MaxApply
    /\ executed' = Append(executed, "patch")
    /\ dir' = [dir EXCEPT !.cfg.text = PatchText(dir.cfg.text)]
    /\ UNCHANGED << pc, cwd, exitCode, failedAt, cleanupFailed, run, priorOk >>

NextPatch == Repatch

SpecPatch == InitPatch /\ [][NextPatch]_vars

(* ----------------------------- properties ------------------------------ *)

\* the process has terminated
Exited == pc = "exited"

\* step s has been attempted in this run
Ran(s) == \E i \in 1..Len(executed) : executed[i] = s

\* the run ended after every step succeeded
FullSuccess == Exited /\ failedAt = "none" /\ ~cleanupFailed /\ Ran("branch")

IsPrefix(a, b) == Len(a) <= Len(b) /\ \A i \in 1..Len(a) : a[i] = b[i]

\* the setup steps attempted, without the working-directory change
SetupSteps == SelectSeq(executed, LAMBDA s : s # "chdir")

\* an empty array after key starts at position i: key, "[" and "]" with
\* nothing but white space between them
EmptyArrayAt(text, i, key) ==
    /\ text[i] = key
    /\ \E j \in (i + 1)..Len(text), k \in (i + 2)..Len(text) :
          /\ j < k
          /\ text[j] = "["
          /\ text[k] = "]"
          /\ \A m \in (i + 1)..(k - 1) : m # j => text[m] = "ws"

NumEmpty(text, key) ==
    Cardinality({ i \in 1..Len(text) : EmptyArrayAt(text, i, key) })

Entries == { "php", "js", "txt", "typo" }

\* the three globs and the plugin registration occur exactly once each
EachOnce(text) == \A e \in Entries : Count(text, e) = 1

\* C1: whichever setup step fails, the target directory does not exist once
\* the process has terminated.
C1_NoDirAfterFailure == (Exited /\ failedAt # "none") => ~dir.exists

\* C2: the exit code is 0 exactly when every step succeeded and 1 when any
\* step failed, the steps before the directory change and the cleanup
\* removal included.
C2_ExitCode ==
    Exited => /\ exitCode \in {0, 1}
              /\ exitCode = 0 <=> FullSuccess
              /\ (failedAt # "none" \/ cleanupFailed) => exitCode = 1

C2_Witness == Exited /\ cleanupFailed /\ failedAt = "build" /\ exitCode = 1

\* C3: once a run has fully succeeded, a later run with the same name fails
\* at the clone step, attempts no later step and leaves the directory of the
\* first run as it is.
C3_SecondRun ==
    /\ [](priorOk => /\ IsPrefix(executed, << "clone" >>)
                     /\ failedAt \in { "none", "clone" }
                     /\ Exited => (failedAt = "clone" /\ exitCode = 1)
                     /\ dir.exists)
    /\ [][priorOk => dir' = dir]_vars

C3_Witness ==
    priorOk /\ Exited /\ failedAt = "clone" /\ dir.exists /\ dir.built

\* C4: on every exit path the working directory at termination is the one
\* the run started in.
C4_CwdRestored == Exited => cwd = "orig"

C4_Witness == Exited /\ failedAt = "build" /\ cwd = "orig"

\* C5: after a fully successful run the target directory holds a manifest
\* with a build and a watch script, and its repository holds the run's own
\* commit and nothing of the template's history.
C5_SuccessState ==
    FullSuccess =>
        /\ dir.exists
        /\ dir.manifest.present
        /\ { "build", "watch" } \subseteq DOMAIN dir.manifest.scripts
        /\ dir.git.present
        /\ dir.git.commits = { "initial" }

C5_Witness == FullSuccess /\ exitCode = 0 /\ dir.git.commits = { "initial" }

\* the patch step of this run has completed and the directory still stands
PatchDone ==
    pc \in { "scripts", "mainjs", "build", "add", "commit", "branch" }

\* C6 as stated: whatever the init command generated, after the patch step
\* the configuration file holds the three globs and the plugin registration
\* exactly once each.
C6_Original == PatchDone => (dir.cfg.present /\ EachOnce(dir.cfg.text))

\* C6 as amended: the patch step adds the three globs once per empty content
\* array and the plugin registration once per empty plugins array of the
\* generated file, so each occurs exactly once when the generated file had
\* one empty array of each kind and none of the entries; without a
\* generated file the step creates none.
C6_PatchCounts ==
    [][(pc = "patch" /\ pc' = "scripts") =>
         IF ~dir.cfg.present THEN ~dir'.cfg.present
         ELSE /\ dir'.cfg.present
              /\ \A e \in { "php", "js", "txt" } :
                    Count(dir'.cfg.text, e) =
                       Count(dir.cfg.text, e) + NumEmpty(dir.cfg.text, "content:")
              /\ Count(dir'.cfg.text, "typo") =
                    Count(dir.cfg.text, "typo") + NumEmpty(dir.cfg.text, "plugins:")
              /\ (/\ NumEmpty(dir.cfg.text, "content:") = 1
                  /\ NumEmpty(dir.cfg.text, "plugins:") = 1
                  /\ \A e \in Entries : Count(dir.cfg.text, e) = 0)
                 => EachOnce(dir'.cfg.text)]_vars

C6_Witness == pc = "scripts" /\ dir.cfg.present /\ EachOnce(dir.cfg.text)

\* the order of section 2 of the specification: both generated source
\* files (7) before the configuration patch (8)
DocumentedOrder ==
    << "clone", "rmgit", "init", "manifest", "install", "twinit", "css",
       "mainjs", "patch", "scripts", "build", "add", "commit", "branch" >>

\* C7 as stated: the steps run in the documented order, both generated
\* source files written before the configuration patch and the manifest
\* script update.
C7_Original ==
    /\ IsPrefix(SetupSteps, DocumentedOrder)
    /\ (Ran("patch") /\ failedAt = "none") => (dir.css /\ dir.js)

\* C7 as amended: the steps run one after the other in the order clone,
\* strip history, re-init, ensure manifest, install, CSS-tool init, write
\* the CSS input file, patch the configuration, record the run scripts,
\* write the JS file, build, add, commit, rename branch; both generated
\* files are written before the build.
C7_CodeOrder ==
    /\ IsPrefix(SetupSteps,
                << "clone", "rmgit", "init", "manifest", "install", "twinit",
                   "css", "patch", "scripts", "mainjs", "build", "add",
                   "commit", "branch" >>)
    /\ (Ran("patch") /\ failedAt = "none") => dir.css
    /\ (Ran("build") /\ failedAt = "none") => (dir.css /\ dir.js)

C7_Witness == pc = "add" /\ Ran("build") /\ dir.built /\ dir.js

\* C8: after the first failure of a run no further setup step is attempted;
\* only the catch block, the finally block and process termination follow,
\* and the directory is either left alone or removed.
C8_AbortOnFailure ==
    [][(failedAt # "none" /\ run' = run) =>
         /\ executed' = executed
         /\ failedAt' = failedAt
         /\ executed[Len(executed)] = failedAt
         /\ dir' \in { dir, NoDir }
         /\ pc' \in { "catch", "finally", "rejected", "exited" }]_vars

C8_Witness ==
    Exited /\ failedAt = "install" /\ executed[Len(executed)] = "install"

\* C9: the create-manifest step leaves an existing manifest unchanged and
\* writes one only when there is none; the script update keeps every other
\* manifest field and every script other than build and watch, which it
\* sets to the two Tailwind commands.
C9_ManifestPreserved ==
    [][/\ (pc = "manifest" /\ pc' = "chdir") =>
            /\ dir'.manifest.present
            /\ dir.manifest.present => dir'.manifest = dir.manifest
       /\ (pc = "scripts" /\ pc' = "mainjs") =>
            /\ dir'.manifest.top = dir.manifest.top
            /\ \A k \in DOMAIN dir.manifest.scripts \ { "build", "watch" } :
                  /\ k \in DOMAIN dir'.manifest.scripts
                  /\ dir'.manifest.scripts[k] = dir.manifest.scripts[k]
            /\ dir'.manifest.scripts["build"] = BuildCmd
            /\ dir'.manifest.scripts["watch"] = WatchCmd]_vars

C9_Witness ==
    /\ pc = "mainjs"
    /\ "custom" \in DOMAIN dir.manifest.top
    /\ "test" \in DOMAIN dir.manifest.scripts
    /\ dir.manifest.scripts["watch"] = WatchCmd

\* C10: patching an already patched text changes nothing, and a text with
\* neither empty array is left unchanged by the patch.
C10_Idempotent ==
    [][/\ Len(executed) >= 1 => dir'.cfg = dir.cfg
       /\ (/\ NumEmpty(dir.cfg.text, "content:") = 0
           /\ NumEmpty(dir.cfg.text, "plugins:") = 0) => dir'.cfg = dir.cfg]_vars

C10_Witness ==
    /\ Len(executed) = 2
    /\ Count(dir.cfg.text, "php") >= 1
    /\ Count(dir.cfg.text, "typo") >= 1

====
